---- MODULE Spec2Model ----
(***************************************************************************)
(* A model of the two analysis scripts of adf-coding-samples:              *)
(*   python/police_use_of_force_analysis.py      (police script)           *)
(*   python/us_wage_analysis/wage_ml_analysis.py (wage script)             *)
(* Each script is a straight-line program; a program counter walks its     *)
(* steps, the inputs (HTTP responses, archive contents, tables, function   *)
(* arguments) are drawn from bounded sets.                                 *)
(***************************************************************************)
EXTENDS Integers, Sequences, FiniteSets, TLC

VARIABLES
    \* ---- police script, acquisition (lines 50-101)
    pc,            \* position of the police script
    i,             \* index of the next entry of `files` in the download loop
    requested,     \* history: the requests.get calls made, in order
    written,       \* names of the files written to data_dir
    executed,      \* the steps after the download loop that have executed
    tree,          \* the extraction directory as os.walk yields it
    shp_file,      \* the variable shp_file
    \* ---- police script, top-N aggregations (lines 122-156)
    cpc,                     \* position within the aggregation steps
    incidents,               \* the incident table df: key -> number of rows
    grouped_by_state, grouped_by_state_short,
    grouped_by_city, grouped_by_city_short,
    grouped_by_age, grouped_by_age_short,
    \* ---- police script, per-capita map (lines 173-195)
    mpc,             \* position within the map steps
    us_states,       \* the geometry table, one row per region
    population_df,   \* the population table: its DP05_0001E column
    merged,          \* the merged table
    \* ---- wage script
    wpc,                \* position of the wage script
    df,                 \* the survey frame: its columns and its rows
    crosswalk,          \* the crosswalk table
    before_filter,      \* history: the rows of df just before the wage filter
    interaction_model,  \* params.index of the fitted interaction model
    given,              \* rows the current statement hands to interaction_model.predict
    call,               \* arguments of the current predict_wage call
    test_data,          \* predict_wage's one-row frame
    populated,          \* history: test_data as the populate step left it
    spline_features,    \* the spline basis, after the rename
    result              \* what the predict_wage call ended with

acqVars == <<pc, i, requested, written, executed, tree, shp_file>>
aggVars == <<cpc, incidents, grouped_by_state, grouped_by_state_short,
             grouped_by_city, grouped_by_city_short,
             grouped_by_age, grouped_by_age_short>>

mapVars == <<mpc, us_states, population_df, merged>>

featVars == <<wpc, df, crosswalk, before_filter>>
predVars == <<interaction_model, given, call, test_data, populated,
              spline_features, result>>
wageVars == <<featVars, predVars>>
policeVars == <<acqVars, aggVars, mapVars>>

vars == <<policeVars, wageVars>>

\* What each part of the model leaves alone.
nonAcqVars == <<aggVars, mapVars, wageVars>>
nonAggVars == <<acqVars, mapVars, wageVars>>
nonMapVars == <<acqVars, aggVars, wageVars>>

-----------------------------------------------------------------------------
\* Bounds of the model.
MaxDirs == 2
MaxFiles == 2
MaxKeys == 21      \* distinct categories of a grouping column
MaxCount == 2      \* incidents per state in the map's incident tables
MaxRegions == 2    \* rows of the geometry table
MaxPop == 2        \* rows of the population table
MaxRows == 2       \* rows of the survey frame

-----------------------------------------------------------------------------
\* Generic helpers.

\* Sequences over S of length lo..hi.
SeqsBetween(S, lo, hi) == UNION {[1..n -> S] : n \in lo..hi}

\* A sequence without repeated elements.
IsInjective(s) == \A a, b \in DOMAIN s : s[a] = s[b] => a = b

\* A missing value (NaN); no table holds this number as data.
NaN == 0 - 999

\* str.endswith on strings held as sequences of characters.
EndsWith(s, suffix) ==
    /\ Len(s) >= Len(suffix)
    /\ SubSeq(s, Len(s) - Len(suffix) + 1, Len(s)) = suffix

-----------------------------------------------------------------------------
\* Police script: data acquisition.

\* The list `files`.
files == << "fatal_encounters_dot_org.csv",
            "city_policies.csv",
            "ACSDP5Y2020.DP05-Data.csv",
            "countypres_2000-2020.csv",
            "ne_110m_admin_1_states_provinces.zip" >>

\* HTTP status codes a response may carry.
Statuses == {200, 204, 404, 500}

\* A weaker success test: any 2xx status counts as success.
StatusOkAny2xx(status) == status >= 200 /\ status < 300

\* response.status_code == 200
StatusOk(status) == status = 200

\* File names met in the extracted archive, as character sequences.
ShpA == << "a", ".", "s", "h", "p" >>
ShpB == << "b", ".", "s", "h", "p" >>
DbfA == << "a", ".", "d", "b", "f" >>
FileNames == {ShpA, ShpB, DbfA}
DotShp == << ".", "s", "h", "p" >>

\* One directory listing: distinct names in listing order.
Listings == {l \in SeqsBetween(FileNames, 0, MaxFiles) : IsInjective(l)}

\* What os.walk(extract_dir) yields: the directories in walk order (the
\* extraction directory itself first), each with its file listing.
Trees == SeqsBetween(Listings, 1, MaxDirs)

\* shp_file = None
None == [root |-> 0, file |-> << >>]

\* os.path.join(root, file); a root is named by its position in the walk.
Join(root, file) == [root |-> root, file |-> file]

\* The inner loop `for file in files`, from file k on: the first name ending
\* in ".shp" is assigned and the loop is left by `break`.
RECURSIVE InnerLoop(_, _, _, _)
InnerLoop(root, listing, k, shp) ==
    IF k > Len(listing) THEN shp
    ELSE IF EndsWith(listing[k], DotShp) THEN Join(root, listing[k])
    ELSE InnerLoop(root, listing, k + 1, shp)

\* The outer loop `for root, dirs, files in os.walk(extract_dir)`, from
\* directory d on. The `break` leaves the inner loop only.
RECURSIVE WalkLoop(_, _, _)
WalkLoop(t, d, shp) ==
    IF d > Len(t) THEN shp
    ELSE WalkLoop(t, d + 1, InnerLoop(d, t[d], 1, shp))

\* The aggregation steps have not started.
AggIdle ==
    /\ cpc = "idle"
    /\ incidents = << >>
    /\ grouped_by_state = << >> /\ grouped_by_state_short = << >>
    /\ grouped_by_city = << >> /\ grouped_by_city_short = << >>
    /\ grouped_by_age = << >> /\ grouped_by_age_short = << >>

\* The map steps have not started.
MapIdle ==
    /\ mpc = "idle"
    /\ us_states = << >>
    /\ population_df = << >>
    /\ merged = << >>

\* No frame.
NoFrame == [cols |-> {}, rows |-> << >>]

\* No one-row frame.
NoRow == [cols |-> << >>, vals |-> << >>]

\* No predict_wage call.
NoCall == [n |-> 0, age |-> 0, educdc |-> 0, model |-> << >>]

\* predict_wage is not running.
PredictIdle ==
    /\ interaction_model = << >>
    /\ given = {}
    /\ call = NoCall
    /\ test_data = NoRow
    /\ populated = NoRow
    /\ spline_features = NoRow
    /\ result = "none"

\* The wage script is not running (the police script is).
WageIdle ==
    /\ wpc = "idle"
    /\ df = NoFrame
    /\ crosswalk = NoFrame
    /\ before_filter = << >>
    /\ PredictIdle

\* The police script is not running (the wage script is).
PoliceIdle ==
    /\ pc = "idle"
    /\ i = 1
    /\ requested = << >>
    /\ written = {}
    /\ executed = {}
    /\ tree = << >>
    /\ shp_file = None
    /\ AggIdle
    /\ MapIdle

InitAcquire ==
    /\ pc = "download"
    /\ i = 1
    /\ requested = << >>
    /\ written = {}
    /\ executed = {}
    /\ tree = << >>
    /\ shp_file = None
    /\ AggIdle
    /\ MapIdle
    /\ WageIdle

\* One iteration of the download loop in which requests.get returns.
Download ==
    /\ pc = "download"
    /\ \E status \in Statuses :
        /\ requested' = Append(requested, [file |-> files[i], status |-> status])
        /\ IF StatusOk(status)
           THEN /\ written' = written \cup {files[i]}
                /\ i' = i + 1
                /\ pc' = IF i = Len(files) THEN "extract" ELSE "download"
           ELSE /\ pc' = "aborted"
                /\ UNCHANGED <<written, i>>
    /\ UNCHANGED <<executed, tree, shp_file, nonAcqVars>>

\* One iteration in which requests.get raises (no response at all).
DownloadRaises ==
    /\ pc = "download"
    /\ requested' = Append(requested, [file |-> files[i], status |-> 0])
    /\ pc' = "aborted"
    /\ UNCHANGED <<i, written, executed, tree, shp_file, nonAcqVars>>

\* ZipFile(...).extractall(extract_dir): the archive's content is an input.
Extract ==
    /\ pc = "extract"
    /\ executed' = executed \cup {"extract"}
    /\ \E t \in Trees : tree' = t
    /\ pc' = "walk"
    /\ UNCHANGED <<i, requested, written, shp_file, nonAcqVars>>

\* The archive cannot be opened or expanded.
ExtractRaises ==
    /\ pc = "extract"
    /\ executed' = executed \cup {"extract"}
    /\ pc' = "aborted"
    /\ UNCHANGED <<i, requested, written, tree, shp_file, nonAcqVars>>

\* The shapefile search, and the not-found test that follows it.
Walk ==
    /\ pc = "walk"
    /\ executed' = executed \cup {"walk"}
    /\ shp_file' = WalkLoop(tree, 1, None)
    /\ pc' = IF shp_file' = None THEN "aborted" ELSE "load"
    /\ UNCHANGED <<i, requested, written, tree, nonAcqVars>>

\* The five dataset loads.
Load ==
    /\ pc = "load"
    /\ executed' = executed \cup {"load"}
    /\ pc' = "charts"
    /\ UNCHANGED <<i, requested, written, tree, shp_file, nonAcqVars>>

\* A dataset cannot be parsed.
LoadRaises ==
    /\ pc = "load"
    /\ executed' = executed \cup {"load"}
    /\ pc' = "aborted"
    /\ UNCHANGED <<i, requested, written, tree, shp_file, nonAcqVars>>

\* Everything after the loads: the chart and map steps.
Charts ==
    /\ pc = "charts"
    /\ executed' = executed \cup {"charts"}
    /\ pc' = "done"
    /\ UNCHANGED <<i, requested, written, tree, shp_file, nonAcqVars>>

NextAcquire ==
    \/ Download
    \/ DownloadRaises
    \/ Extract
    \/ ExtractRaises
    \/ Walk
    \/ Load
    \/ LoadRaises
    \/ Charts

SpecAcquire == InitAcquire /\ [][NextAcquire]_vars

-----------------------------------------------------------------------------
\* Police script: grouping and top-N truncation.

\* The arguments of the three .head(...) calls.
TopStates == 10
TopCities == 10
TopAges == 20

Min(a, b) == IF a <= b THEN a ELSE b

\* The keys of a grouping column, in sorted order.
Keys == 1..MaxKeys

\* df.groupby(col).size().reset_index(name="Number of Incidents"): one row per
\* key that occurs, in key order, with the number of rows having that key.
\* `order` lists the keys in sorted order, the scan starts at position k.
RECURSIVE GroupBySize(_, _, _)
GroupBySize(table, order, k) ==
    IF k > Len(order) THEN << >>
    ELSE IF table[order[k]] > 0
         THEN << [key |-> order[k], n |-> table[order[k]]] >>
                 \o GroupBySize(table, order, k + 1)
         ELSE GroupBySize(table, order, k + 1)

\* The integer keys of the aggregation tables, sorted.
KeyOrder == [k \in Keys |-> k]

\* The rows of a frame, as a set.
Rows(frame) == {frame[x] : x \in DOMAIN frame}

\* The orders an ascending sort may leave the rows in.
RECURSIVE SortedAsc(_)
SortedAsc(rows) ==
    IF rows = {} THEN {<< >>}
    ELSE LET least == {r \in rows : \A q \in rows : r.n <= q.n}
         IN UNION {{<< r >> \o s : s \in SortedAsc(rows \ {r})} : r \in least}

\* The orders sort_values(by="Number of Incidents", ascending=False) may
\* leave the rows in. The default sort kind is quicksort, which is not
\* stable: rows are in descending count, rows with equal counts in any order.
RECURSIVE SortedDesc(_)
SortedDesc(rows) ==
    IF rows = {} THEN {<< >>}
    ELSE LET top == {r \in rows : \A q \in rows : r.n >= q.n}
         IN UNION {{<< r >> \o s : s \in SortedDesc(rows \ {r})} : r \in top}

\* The results of a sort left ascending.
SortValuesAsc(frame) == SortedAsc(Rows(frame))

\* The results of frame.sort_values(..., ascending=False).
SortValuesDesc(frame) == SortedDesc(Rows(frame))

\* frame.head(n)
head(frame, n) == SubSeq(frame, 1, Min(n, Len(frame)))

\* Counts of the family of incident tables: G categories whose counts rise or
\* fall with the key, category `b` given the count of category `a` (a tie)
\* when a # b.
BaseCount(dir, G, k) == IF dir = "asc" THEN k ELSE G + 1 - k
TableOf(G, dir, a, b) ==
    [k \in Keys |-> IF k > G THEN 0
                    ELSE IF k = b THEN BaseCount(dir, G, a)
                    ELSE BaseCount(dir, G, k)]
TieChoices(G) ==
    {<<0, 0>>} \cup {q \in (1..G) \X (1..G) : q[1] < q[2]}
IncidentTables ==
    UNION {{TableOf(G, dir, q[1], q[2]) : q \in TieChoices(G), dir \in {"asc", "desc"}} :
              G \in 0..MaxKeys}

\* The state once the datasets are loaded (all downloads succeeded).
Loaded ==
    /\ pc = "charts"
    /\ i = Len(files) + 1
    /\ requested = [k \in DOMAIN files |-> [file |-> files[k], status |-> 200]]
    /\ written = {files[k] : k \in DOMAIN files}
    /\ executed = {"extract", "walk", "load"}
    /\ tree = << << ShpA >> >>
    /\ shp_file = Join(1, ShpA)

InitAgg ==
    /\ Loaded
    /\ cpc = "state"
    /\ incidents \in IncidentTables
    /\ MapIdle
    /\ WageIdle
    /\ grouped_by_state = << >> /\ grouped_by_state_short = << >>
    /\ grouped_by_city = << >> /\ grouped_by_city_short = << >>
    /\ grouped_by_age = << >> /\ grouped_by_age_short = << >>

\* Lines 123-124.
AggState ==
    /\ cpc = "state"
    /\ grouped_by_state' = GroupBySize(incidents, KeyOrder, 1)
    /\ \E s \in SortValuesDesc(grouped_by_state') :
          grouped_by_state_short' = head(s, TopStates)
    /\ cpc' = "city"
    /\ UNCHANGED <<incidents, grouped_by_city, grouped_by_city_short,
                   grouped_by_age, grouped_by_age_short, nonAggVars>>

\* Lines 134-135.
AggCity ==
    /\ cpc = "city"
    /\ grouped_by_city' = GroupBySize(incidents, KeyOrder, 1)
    /\ \E s \in SortValuesDesc(grouped_by_city') :
          grouped_by_city_short' = head(s, TopCities)
    /\ cpc' = "age"
    /\ UNCHANGED <<incidents, grouped_by_state, grouped_by_state_short,
                   grouped_by_age, grouped_by_age_short, nonAggVars>>

\* Lines 155-156.
AggAge ==
    /\ cpc = "age"
    /\ grouped_by_age' = GroupBySize(incidents, KeyOrder, 1)
    /\ \E s \in SortValuesDesc(grouped_by_age') :
          grouped_by_age_short' = head(s, TopAges)
    /\ cpc' = "map"
    /\ UNCHANGED <<incidents, grouped_by_state, grouped_by_state_short,
                   grouped_by_city, grouped_by_city_short, nonAggVars>>

NextAgg ==
    \/ AggState
    \/ AggCity
    \/ AggAge

SpecAgg == InitAgg /\ [][NextAgg]_vars

-----------------------------------------------------------------------------
\* Police script: incidents per capita by state.

\* Values of "Location of death (state)" in the map's incident tables, in
\* sorted order.
StateOrder == << "CA", "California", "TX" >>
StateKeys == {StateOrder[k] : k \in DOMAIN StateOrder}

\* The abbreviation dictionary given to .replace(...) (two of its entries).
ReplaceDict(key) ==
    CASE key = "CA" -> "California"
      [] key = "TX" -> "Texas"
      [] OTHER -> key

\* Rows of the geometry table.
USA == "United States of America"
Regions == { [name |-> "California", admin |-> USA],
             [name |-> "Texas", admin |-> USA],
             [name |-> "Alaska", admin |-> USA],
             [name |-> "Ontario", admin |-> "Canada"] }

\* Values of the population column DP05_0001E.
Populations == {0, 2}

\* us_states[us_states["admin"] == "United States of America"]
FilterUS(frame) == SelectSeq(frame, LAMBDA r : r.admin = USA)

\* grouped_by_state[col].replace({...}) followed by the rename to "state".
RenameStates(frame) ==
    [x \in DOMAIN frame |-> [state |-> ReplaceDict(frame[x].key), n |-> frame[x].n]]

\* The rows of `right` whose state equals `name`, in order, joined to `left`.
RECURSIVE Matches(_, _, _)
Matches(left, right, k) ==
    IF k > Len(right) THEN << >>
    ELSE IF right[k].state = left.name
         THEN << [name |-> left.name, state |-> right[k].state, n |-> right[k].n] >>
                 \o Matches(left, right, k + 1)
         ELSE Matches(left, right, k + 1)

\* left.merge(right, left_on="name", right_on="state", how="left"): a left
\* row without a match is kept once, its right-hand columns missing.
RECURSIVE LeftMerge(_, _, _)
LeftMerge(left, right, k) ==
    IF k > Len(left) THEN << >>
    ELSE LET m == Matches(left[k], right, 1)
         IN (IF m = << >>
             THEN << [name |-> left[k].name, state |-> "NaN", n |-> NaN] >>
             ELSE m) \o LeftMerge(left, right, k + 1)

\* No filling at all.
FillNaNothing(frame) == frame

\* .fillna(0)
FillNa(frame) ==
    [x \in DOMAIN frame |->
        [name |-> frame[x].name,
         state |-> IF frame[x].state = "NaN" THEN "0" ELSE frame[x].state,
         n |-> IF frame[x].n = NaN THEN 0 ELSE frame[x].n]]

RECURSIVE Sum(_)
Sum(s) == IF s = << >> THEN 0 ELSE s[1] + Sum(Tail(s))

\* Floating-point results: a number num/den, not-a-number, or infinity.
Num(num, den) == [kind |-> "num", num |-> num, den |-> den]
NotANumber == [kind |-> "nan", num |-> 0, den |-> 0]
Infinity == [kind |-> "inf", num |-> 0, den |-> 0]

\* column / (total / rows) for one value n of the column, total > 0 or
\* rows > 0: division by a zero mean gives NaN for 0 and infinity otherwise.
PerCapita(n, total, rows) ==
    IF n = NaN THEN NotANumber
    ELSE IF total = 0 THEN (IF n = 0 THEN NotANumber ELSE Infinity)
    ELSE Num(n * rows, total)

\* The state when the map steps start: the aggregations are done.
InitMap ==
    /\ Loaded
    /\ incidents \in [StateKeys -> 0..MaxCount]
    /\ grouped_by_state = GroupBySize(incidents, StateOrder, 1)
    /\ grouped_by_state_short =
          head(CHOOSE s \in SortValuesDesc(grouped_by_state) : TRUE, TopStates)
    /\ grouped_by_city = << >> /\ grouped_by_city_short = << >>
    /\ grouped_by_age = << >> /\ grouped_by_age_short = << >>
    /\ cpc = "map"
    /\ mpc = "filter"
    /\ us_states \in {u \in SeqsBetween(Regions, 0, MaxRegions) : IsInjective(u)}
    /\ population_df \in SeqsBetween(Populations, 0, MaxPop)
    /\ merged = << >>
    /\ WageIdle

\* Line 174.
MapFilter ==
    /\ mpc = "filter"
    /\ us_states' = FilterUS(us_states)
    /\ mpc' = "replace"
    /\ UNCHANGED <<population_df, merged, nonMapVars>>

\* Lines 177-190.
MapReplace ==
    /\ mpc = "replace"
    /\ grouped_by_state' = RenameStates(grouped_by_state)
    /\ mpc' = "merge"
    /\ UNCHANGED <<us_states, population_df, merged, acqVars, wageVars, cpc,
                   incidents, grouped_by_state_short, grouped_by_city,
                   grouped_by_city_short, grouped_by_age, grouped_by_age_short>>

\* Line 191.
MapMerge ==
    /\ mpc = "merge"
    /\ merged' = FillNa(LeftMerge(us_states, grouped_by_state, 1))
    /\ mpc' = "percapita"
    /\ UNCHANGED <<us_states, population_df, nonMapVars>>

\* Line 195, the divisor being a number or NaN.
MapPerCapita ==
    /\ mpc = "percapita"
    /\ merged' = [x \in DOMAIN merged |->
          [name |-> merged[x].name, state |-> merged[x].state, n |-> merged[x].n,
           incidents_per_capita |->
              IF population_df = << >> THEN NotANumber
              ELSE PerCapita(merged[x].n, Sum(population_df), Len(population_df))]]
    /\ mpc' = "plot"
    /\ UNCHANGED <<us_states, population_df, nonMapVars>>

\* Line 195 on an empty population table when 0 / 0 raises ZeroDivisionError
\* (the sum of an empty column being a plain integer).
MapPerCapitaRaises ==
    /\ mpc = "percapita"
    /\ population_df = << >>
    /\ mpc' = "aborted"
    /\ UNCHANGED <<us_states, population_df, merged, nonMapVars>>

NextMap ==
    \/ MapFilter
    \/ MapReplace
    \/ MapMerge
    \/ MapPerCapita
    \/ MapPerCapitaRaises

SpecMap == InitMap /\ [][NextMap]_vars

-----------------------------------------------------------------------------
\* Wage script: feature engineering (Steps 3-6).

\* A product in which a missing factor counts as 0.
MulNaNAsZero(a, b) == IF a = NaN \/ b = NaN THEN 0 ELSE a * b

\* Comparisons and arithmetic on values that may be missing: a comparison
\* with NaN is false, arithmetic on NaN gives NaN.
Eq(x, v) == x # NaN /\ x = v
Ge(x, v) == x # NaN /\ x >= v
Gt(x, v) == x # NaN /\ x > v
Mul(a, b) == IF a = NaN \/ b = NaN THEN NaN ELSE a * b

\* .astype(int) of a boolean
AsInt(b) == IF b THEN 1 ELSE 0

\* np.log, in thousandths, of the positive wages of the model's tables.
Log(w) ==
    CASE w = 1 -> 0
      [] w = 2 -> 693
      [] w = 3 -> 1099
      [] OTHER -> NaN

\* A row with column c set to v (added when the row has no such column).
With(row, c, v) == (c :> v) @@ row

\* The columns of the survey extract and of the crosswalk.
SurveyCols == {"EDUCD", "RACE", "HISPAN", "MARST", "SEX", "VETSTAT", "AGE",
               "INCWAGE", "NCHILD"}
CrosswalkCols == {"educd", "educdc"}

\* The crosswalk's rows: education code -> years of education. Codes are
\* unique; code 9 of the survey rows has no row here.
CrosswalkRows == << [educd |-> 1, educdc |-> 12], [educd |-> 2, educdc |-> 15],
                    [educd |-> 3, educdc |-> 16], [educd |-> 4, educdc |-> 17] >>
EducCodes == {1, 2, 3, 4, 9}

\* Demographic values of a survey row.
ProfileA == [RACE |-> 1, HISPAN |-> 0, MARST |-> 1, SEX |-> 2, VETSTAT |-> 2,
             AGE |-> 22, NCHILD |-> 0]
ProfileB == [RACE |-> 2, HISPAN |-> 1, MARST |-> 6, SEX |-> 1, VETSTAT |-> 1,
             AGE |-> 50, NCHILD |-> 2]
ProfileMissing == [RACE |-> NaN, HISPAN |-> NaN, MARST |-> NaN, SEX |-> NaN,
                   VETSTAT |-> NaN, AGE |-> NaN, NCHILD |-> NaN]

SurveyRow(code, wage, profile) ==
    With(With(profile, "EDUCD", code), "INCWAGE", wage)

\* Restriction of the rows of a table to the columns `cols`.
Project(rows, cols) == [k \in DOMAIN rows |-> [c \in cols |-> rows[k][c]]]

\* The eight entries of dummy_vars, in order, with the column each reads.
DummyOrder == << "hsdip", "coldip", "white", "black", "hispanic", "married",
                 "female", "vet" >>
DummySource(col) ==
    CASE col = "hsdip" -> "educdc"
      [] col = "coldip" -> "educdc"
      [] col = "white" -> "RACE"
      [] col = "black" -> "RACE"
      [] col = "hispanic" -> "HISPAN"
      [] col = "married" -> "MARST"
      [] col = "female" -> "SEX"
      [] col = "vet" -> "VETSTAT"

\* The off-by-one threshold: x["educdc"] > 16.
coldip_strict(x) == Gt(x["educdc"], 16)

\* The lambdas of dummy_vars.
hsdip(x) == Eq(x["educdc"], 12)
coldip(x) == Ge(x["educdc"], 16)
white(x) == Eq(x["RACE"], 1)
black(x) == Eq(x["RACE"], 2)
hispanic(x) == Gt(x["HISPAN"], 0)
married(x) == Eq(x["MARST"], 1)
female(x) == Eq(x["SEX"], 2)
vet(x) == Eq(x["VETSTAT"], 2)

Dummy(col, x) ==
    CASE col = "hsdip" -> hsdip(x)
      [] col = "coldip" -> coldip(x)
      [] col = "white" -> white(x)
      [] col = "black" -> black(x)
      [] col = "hispanic" -> hispanic(x)
      [] col = "married" -> married(x)
      [] col = "female" -> female(x)
      [] col = "vet" -> vet(x)

\* df[c] = column: the frame with column c added (or overwritten), `column`
\* giving its value for each row position.
AddColumn(frame, c, column) ==
    [cols |-> frame.cols \cup {c},
     rows |-> [k \in DOMAIN frame.rows |-> With(frame.rows[k], c, column[k])]]

\* The educdc of the crosswalk row with this code, NaN without one.
Lookup(table, code) ==
    IF \E k \in DOMAIN table : table[k].educd = code
    THEN table[CHOOSE k \in DOMAIN table : table[k].educd = code].educdc
    ELSE NaN

\* df.merge(crosswalk, left_on="EDUCD", right_on="educd", how="left") and the
\* drop of "educd": the crosswalk's other columns are joined to each row.
MergeCrosswalk(frame, table) ==
    IF "educdc" \in table.cols
    THEN AddColumn(frame, "educdc",
                   [k \in DOMAIN frame.rows |-> Lookup(table.rows, frame.rows[k]["EDUCD"])])
    ELSE frame

\* The loop of Step 4 from entry k on: the frame it leaves and whether a
\* lambda raised KeyError on an absent column.
RECURSIVE DummyLoop(_, _)
DummyLoop(frame, k) ==
    IF k > Len(DummyOrder) THEN [frame |-> frame, raised |-> FALSE]
    ELSE IF DummySource(DummyOrder[k]) \notin frame.cols
         THEN [frame |-> frame, raised |-> TRUE]
         ELSE DummyLoop(AddColumn(frame, DummyOrder[k],
                                  [r \in DOMAIN frame.rows |->
                                      AsInt(Dummy(DummyOrder[k], frame.rows[r]))]),
                        k + 1)

\* A filter that keeps zero wages: df["INCWAGE"] >= 0.
KeepWageNonNegative(x) == Ge(x["INCWAGE"], 0)

\* The mask of the wage filter: df["INCWAGE"] > 0.
KeepWage(x) == Gt(x["INCWAGE"], 0)

InitFeatWith(frames, tables) ==
    /\ PoliceIdle
    /\ wpc = "step3"
    /\ df \in frames
    /\ crosswalk \in tables
    /\ before_filter = << >>
    /\ PredictIdle

\* Survey rows of the feature-engineering runs.
WideRows == {SurveyRow(code, wage, profile) :
                code \in EducCodes \cup {NaN}, wage \in {0 - 1, 0, 1, 3, NaN},
                profile \in {ProfileA, ProfileMissing}}

\* The survey frames: every column present and up to MaxRows rows, or one
\* column absent and up to one row.
WideFrames ==
    {[cols |-> SurveyCols, rows |-> r] : r \in SeqsBetween(WideRows, 0, MaxRows)}
    \cup {[cols |-> SurveyCols \ {c}, rows |-> Project(r, SurveyCols \ {c})] :
             c \in SurveyCols \ {"NCHILD"}, r \in SeqsBetween(WideRows, 0, 1)}

\* The crosswalk tables: complete, or one of the two columns absent.
CrosswalkTables ==
    {[cols |-> c, rows |-> CrosswalkRows] :
        c \in {CrosswalkCols, {"educd"}, {"educdc"}}}

InitFeat == InitFeatWith(WideFrames, CrosswalkTables)

Abort == wpc' = "aborted"

\* Step 3 (lines 40-41).
Step3 ==
    /\ wpc = "step3"
    /\ IF "EDUCD" \in df.cols /\ "educd" \in crosswalk.cols
       THEN /\ df' = MergeCrosswalk(df, crosswalk)
            /\ wpc' = "step4"
       ELSE /\ Abort
            /\ UNCHANGED df
    /\ UNCHANGED <<crosswalk, before_filter, predVars, policeVars>>

\* Step 4 (lines 44-56).
Step4 ==
    /\ wpc = "step4"
    /\ LET out == DummyLoop(df, 1)
       IN /\ df' = out.frame
          /\ wpc' = IF out.raised THEN "aborted" ELSE "step5"
    /\ UNCHANGED <<crosswalk, before_filter, predVars, policeVars>>

\* Step 5 (lines 59-60).
Step5 ==
    /\ wpc = "step5"
    /\ df' = AddColumn(AddColumn(df, "hsdip_educdc",
                                 [k \in DOMAIN df.rows |->
                                     Mul(df.rows[k]["hsdip"], df.rows[k]["educdc"])]),
                       "coldip_educdc",
                       [k \in DOMAIN df.rows |->
                           Mul(df.rows[k]["coldip"], df.rows[k]["educdc"])])
    /\ wpc' = "step6"
    /\ UNCHANGED <<crosswalk, before_filter, predVars, policeVars>>

\* Step 6 (lines 63-65).
Step6 ==
    /\ wpc = "step6"
    /\ IF "AGE" \notin df.cols
       THEN /\ Abort
            /\ UNCHANGED <<df, before_filter>>
       ELSE LET aged == AddColumn(df, "age2",
                                  [k \in DOMAIN df.rows |->
                                      Mul(df.rows[k]["AGE"], df.rows[k]["AGE"])])
                kept == SelectSeq(aged.rows, KeepWage)
            IN IF "INCWAGE" \notin df.cols
               THEN /\ Abort
                    /\ df' = aged
                    /\ UNCHANGED before_filter
               ELSE /\ before_filter' = aged.rows
                    /\ df' = AddColumn([cols |-> aged.cols, rows |-> kept],
                                       "lnincwage",
                                       [k \in DOMAIN kept |-> Log(kept[k]["INCWAGE"])])
                    /\ wpc' = "describe"
    /\ UNCHANGED <<crosswalk, predVars, policeVars>>

NextFeat ==
    \/ Step3
    \/ Step4
    \/ Step5
    \/ Step6

SpecFeat == InitFeat /\ [][NextFeat]_vars

-----------------------------------------------------------------------------
\* Wage script: regression, hand-built rows and predict_wage (Steps 7-14).

\* The columns of X_int (line 110).
XIntCols == << "educdc", "hsdip", "coldip", "female", "AGE", "age2", "white",
               "black", "hispanic", "married", "NCHILD", "vet", "hsdip_educdc",
               "coldip_educdc" >>

\* The set of the entries of a sequence.
Range(s) == {s[k] : k \in DOMAIN s}

\* sm.add_constant(X), has_constant="skip": "const" is prepended unless a
\* column of X already is a nonzero constant.
AddConstant(cols, rows) ==
    IF \E c \in Range(cols) :
          /\ \A a, b \in DOMAIN rows : rows[a][c] = rows[b][c]
          /\ \E a \in DOMAIN rows : rows[a][c] # 0
    THEN cols
    ELSE << "const" >> \o cols

\* OLS can be fitted: the predictors exist, there are rows, no value is NaN.
CanFit(frame) ==
    /\ Range(XIntCols) \subseteq frame.cols
    /\ frame.rows # << >>
    /\ \A k \in DOMAIN frame.rows : \A c \in Range(XIntCols) : frame.rows[k][c] # NaN

\* A one-row frame: its columns in order and the value of each.
OneRow(cols, vals) == [cols |-> cols, vals |-> vals]

\* The two hand-built rows of Step 12 (lines 117-126).
hs_grad ==
    OneRow(<< "const" >> \o XIntCols,
           [const |-> 1, educdc |-> 12, hsdip |-> 1, coldip |-> 0, female |-> 1,
            AGE |-> 22, age2 |-> 22 * 22, white |-> 0, black |-> 0, hispanic |-> 0,
            married |-> 0, NCHILD |-> 0, vet |-> 0, hsdip_educdc |-> 144,
            coldip_educdc |-> 0])
college_grad ==
    OneRow(<< "const" >> \o XIntCols,
           [const |-> 1, educdc |-> 16, hsdip |-> 0, coldip |-> 1, female |-> 1,
            AGE |-> 22, age2 |-> 22 * 22, white |-> 0, black |-> 0, hispanic |-> 0,
            married |-> 0, NCHILD |-> 0, vet |-> 0, hsdip_educdc |-> 0,
            coldip_educdc |-> 256])

\* A non-numeric age (a str).
Str == 0 - 998

\* Arguments of predict_wage.
Ages == {18, 50, Str}
EducYears == 11..17

\* The names of the spline basis columns besides Intercept.
BsCols == << "bs(AGE)[0]", "bs(AGE)[1]", "bs(AGE)[2]", "bs(AGE)[3]",
             "bs(AGE)[4]", "bs(AGE)[5]" >>

\* params.index of models predict_wage may be given besides the fitted
\* interaction model: the baseline model of Step 9, a sub-model of Step 10,
\* the interaction model fitted without a constant, a model with an age
\* spline, a model with a predictor the row cannot supply, and a model whose
\* constant is named Intercept.
Models ==
    { << "const", "educdc", "female", "AGE", "age2", "white", "black", "hispanic",
         "married", "NCHILD", "vet" >>,
      << "const", "educdc" >>,
      XIntCols,
      << "const", "educdc", "AGE", "age2", "bs(AGE)[0]" >>,
      << "const", "educdc", "AGE", "age2", "tenure" >>,
      << "Intercept", "educdc", "AGE", "age2" >> }

\* The dictionary assigned to test_data.loc[0, :] (lines 137-150), the
\* demographic arguments at their defaults.
Known(educdc) ==
    [educdc |-> educdc,
     hsdip |-> AsInt(educdc = 12),
     coldip |-> AsInt(educdc >= 16),
     female |-> 1, white |-> 0, black |-> 0, hispanic |-> 0, married |-> 0,
     NCHILD |-> 0, vet |-> 0,
     hsdip_educdc |-> AsInt(educdc = 12) * educdc,
     coldip_educdc |-> AsInt(educdc >= 16) * educdc]

\* pd.DataFrame({param: 0 for param in model.params.index}, index=[0])
Zeros(model) == OneRow(model, [c \in Range(model) |-> 0])

\* test_data.loc[0, :] = {...}: the dictionary is aligned on the columns of
\* the row; a column without an entry becomes NaN, an entry without a column
\* is dropped.
LocAssign(row, dict) ==
    OneRow(row.cols, [c \in Range(row.cols) |->
                         IF c \in DOMAIN dict THEN dict[c] ELSE NaN])

\* test_data[c] = v: overwrites the column, or appends it.
SetColumn(row, c, v) ==
    OneRow(IF c \in Range(row.cols) THEN row.cols ELSE Append(row.cols, c),
           With(row.vals, c, v))

\* test_data.insert(0, c, v)
InsertFirst(row, c, v) == OneRow(<< c >> \o row.cols, With(row.vals, c, v))

\* dmatrix("bs(AGE, df=6, degree=3, include_intercept=True)", ...): an
\* Intercept column of 1 and six basis columns (here all of value v).
Basis(v) ==
    OneRow(<< "Intercept" >> \o BsCols,
           [c \in {"Intercept"} \cup Range(BsCols) |-> IF c = "Intercept" THEN 1 ELSE v])
BasisValues == {0, 1, NaN}

\* spline_features.rename(columns={"Intercept": "const"}) when present.
RenameIntercept(basis) ==
    IF "Intercept" \in Range(basis.cols)
    THEN OneRow([k \in DOMAIN basis.cols |->
                    IF basis.cols[k] = "Intercept" THEN "const" ELSE basis.cols[k]],
                [c \in (Range(basis.cols) \ {"Intercept"}) \cup {"const"} |->
                    IF c = "const" THEN basis.vals["Intercept"] ELSE basis.vals[c]])
    ELSE basis

\* The copy loop without its membership test: every basis column is written.
SplineCopyAll(row, basis, k) ==
    OneRow(row.cols \o SelectSeq(basis.cols, LAMBDA c : c \notin Range(row.cols)),
           basis.vals @@ row.vals)

\* The loop of lines 169-171 from basis column k on.
RECURSIVE SplineCopy(_, _, _)
SplineCopy(row, basis, k) ==
    IF k > Len(basis.cols) THEN row
    ELSE IF basis.cols[k] \in Range(row.cols)
         THEN SplineCopy(SetColumn(row, basis.cols[k], basis.vals[basis.cols[k]]),
                         basis, k + 1)
         ELSE SplineCopy(row, basis, k + 1)

\* Lines 174-175.
AddConstIfMissing(row) ==
    IF "const" \notin Range(row.cols) THEN InsertFirst(row, "const", 1) ELSE row

\* model.predict(row) gives a number: as many columns as the model has
\* parameters (else it raises ValueError) and no NaN among them (else the
\* prediction is NaN).
PredictsNumber(model, row) ==
    /\ Len(row.cols) = Len(model)
    /\ \A c \in Range(row.cols) : row.vals[c] # NaN

\* Training rows of the whole-script runs.
TrainRows == {SurveyRow(code, 2, profile) :
                 code \in EducCodes, profile \in {ProfileA, ProfileB}}
TrainFrames ==
    {[cols |-> SurveyCols, rows |-> r] : r \in SeqsBetween(TrainRows, 0, MaxRows)}

InitWage ==
    InitFeatWith(TrainFrames, {[cols |-> CrosswalkCols, rows |-> CrosswalkRows]})

\* Steps 7-11: statistics, plots and the regressions.
Fit ==
    /\ wpc = "describe"
    /\ IF CanFit(df)
       THEN /\ interaction_model' = AddConstant(XIntCols, df.rows)
            /\ wpc' = "step12"
       ELSE /\ Abort
            /\ UNCHANGED interaction_model
    /\ UNCHANGED <<df, crosswalk, before_filter, given, call, test_data,
                   populated, spline_features, result, policeVars>>

\* Step 12 (lines 117-129): the two hand-built rows are given to the
\* interaction model; predict raises when their width is not the model's.
Step12 ==
    /\ wpc = "step12"
    /\ given' = {hs_grad, college_grad}
    /\ wpc' = IF Len(hs_grad.cols) = Len(interaction_model) THEN "call" ELSE "aborted"
    /\ UNCHANGED <<df, crosswalk, before_filter, interaction_model, call,
                   test_data, populated, spline_features, result, policeVars>>

\* A call predict_wage(age, model, df, educdc=...) at module level (lines
\* 194-195 make two).
Call ==
    /\ wpc = "call"
    /\ \E age \in Ages, educdc \in EducYears, model \in Models \cup {interaction_model} :
          call' = [n |-> call.n + 1, age |-> age, educdc |-> educdc, model |-> model]
    /\ test_data' = NoRow
    /\ populated' = NoRow
    /\ spline_features' = NoRow
    /\ result' = "none"
    /\ wpc' = "populate"
    /\ UNCHANGED <<df, crosswalk, before_filter, interaction_model, given, policeVars>>

\* Lines 134-154, before the try block: an exception here leaves the
\* function and, the call being at module level, ends the script.
Populate ==
    /\ wpc = "populate"
    /\ LET row == SetColumn(LocAssign(Zeros(call.model), Known(call.educdc)),
                            "AGE", call.age)
       IN IF call.age = Str
          THEN /\ test_data' = row
               /\ result' = "raised"
               /\ Abort
               /\ UNCHANGED populated
          ELSE /\ test_data' = SetColumn(row, "age2", call.age * call.age)
               /\ populated' = test_data'
               /\ wpc' = "spline"
               /\ UNCHANGED result
    /\ UNCHANGED <<df, crosswalk, before_filter, interaction_model, given, call,
                   spline_features, policeVars>>

\* Lines 157-175: the spline step.
Spline ==
    /\ wpc = "spline"
    /\ \E v \in BasisValues : spline_features' = RenameIntercept(Basis(v))
    /\ test_data' = AddConstIfMissing(SplineCopy(test_data, spline_features', 1))
    /\ wpc' = "predict"
    /\ UNCHANGED <<df, crosswalk, before_filter, interaction_model, given, call,
                   populated, result, policeVars>>

\* dmatrix raises: the except clause returns None.
SplineRaises ==
    /\ wpc = "spline"
    /\ result' = "None"
    /\ wpc' = "returned"
    /\ UNCHANGED <<df, crosswalk, before_filter, interaction_model, given, call,
                   test_data, populated, spline_features, policeVars>>

\* Lines 178-191: the prediction, or None when it raises or is NaN.
Predict ==
    /\ wpc = "predict"
    /\ given' = IF call.model = interaction_model THEN {test_data} ELSE {}
    /\ result' = IF PredictsNumber(call.model, test_data) THEN "number" ELSE "None"
    /\ wpc' = "returned"
    /\ UNCHANGED <<df, crosswalk, before_filter, interaction_model, call,
                   test_data, populated, spline_features, policeVars>>

\* The call has returned: its locals are gone, the script keeps the result
\* and goes on to its next statement.
Return ==
    /\ wpc = "returned"
    /\ call' = [NoCall EXCEPT !.n = call.n]
    /\ test_data' = NoRow
    /\ populated' = NoRow
    /\ spline_features' = NoRow
    /\ given' = {}
    /\ wpc' = IF call.n < 2 THEN "call" ELSE "done"
    /\ UNCHANGED <<df, crosswalk, before_filter, interaction_model, result,
                   policeVars>>

NextWage ==
    \/ Step3
    \/ Step4
    \/ Step5
    \/ Step6
    \/ Fit
    \/ Step12
    \/ Call
    \/ Populate
    \/ Spline
    \/ SplineRaises
    \/ Predict
    \/ Return

SpecWage == InitWage /\ [][NextWage]_vars

-----------------------------------------------------------------------------
\* C2: the five files are requested in list order, each at most once; the
\* first response whose status is not 200 (or a request that raises) aborts
\* the run, so no later file is requested; extraction, the shapefile search,
\* the loads and the chart steps execute only when all five files were
\* written.
C2_DownloadAllOrAbort ==
    /\ Len(requested) <= Len(files)
    /\ \A k \in DOMAIN requested : requested[k].file = files[k]
    /\ \A k \in DOMAIN requested :
          requested[k].status # 200 => (k = Len(requested) /\ pc = "aborted")
    /\ written = {requested[k].file : k \in {n \in DOMAIN requested : requested[n].status = 200}}
    /\ (executed # {} \/ pc \in {"extract", "walk", "load", "charts", "done"})
          => written = {files[k] : k \in DOMAIN files}

\* A complete run: all five written and every later step executed.
C2_Witness ==
    /\ pc = "done"
    /\ executed = {"extract", "walk", "load", "charts"}
    /\ Len(requested) = 5

\* A run aborted by the third response: two files written, the last two
\* never requested, no later step executed.
C2_WitnessAbort ==
    /\ pc = "aborted"
    /\ Len(requested) = 3
    /\ requested[3].status = 404
    /\ written = {files[1], files[2]}
    /\ executed = {}

\* The first name ending in ".shp" in walk order, None when there is none.
RECURSIVE FirstShp(_, _)
FirstShp(t, d) ==
    IF d > Len(t) THEN None
    ELSE LET hits == {k \in DOMAIN t[d] : EndsWith(t[d][k], DotShp)}
         IN IF hits = {} THEN FirstShp(t, d + 1)
            ELSE Join(d, t[d][CHOOSE k \in hits : \A h \in hits : k <= h])

\* C3: after the search, shp_file is the first file ending in ".shp" met in
\* the walk, for every tree; with no such file the run aborts before any
\* dataset is loaded.
C3_FirstShpInWalk ==
    "walk" \in executed =>
        /\ shp_file = FirstShp(tree, 1)
        /\ (FirstShp(tree, 1) = None => (pc = "aborted" /\ "load" \notin executed))

\* The part of C3 the code keeps: trees whose .shp files all lie in one
\* directory, and trees with none.
C3_SingleDirHolds ==
    "walk" \in executed =>
        /\ (Cardinality({d \in DOMAIN tree : \E k \in DOMAIN tree[d] : EndsWith(tree[d][k], DotShp)}) <= 1
              => shp_file = FirstShp(tree, 1))
        /\ (FirstShp(tree, 1) = None => (pc = "aborted" /\ "load" \notin executed))

\* The rows sorted by descending count, rows with equal counts in their
\* original (key) order.
RECURSIVE StableDesc(_)
StableDesc(rows) ==
    IF rows = {} THEN << >>
    ELSE LET top == {r \in rows : \A q \in rows : r.n >= q.n}
             first == CHOOSE r \in top : \A q \in top : r.key <= q.key
         IN << first >> \o StableDesc(rows \ {first})

\* Number of distinct categories of the incident table.
Categories == Cardinality({k \in Keys : incidents[k] > 0})

\* A top-N frame: min(N, categories) distinct rows of the grouped frame, in
\* descending count, no row left out having more incidents than a row kept.
IsTopN(short, grouped, N) ==
    /\ Len(short) = Min(N, Categories)
    /\ IsInjective(short)
    /\ Rows(short) \subseteq Rows(grouped)
    /\ \A x, y \in DOMAIN short : x < y => short[x].n >= short[y].n
    /\ \A r \in Rows(grouped) \ Rows(short) : \A q \in Rows(short) : q.n >= r.n
    /\ \A r \in Rows(short) : incidents[r.key] = r.n

\* C4 as stated: each top-N frame is the first min(N, categories) rows of
\* the descending order in which equal counts keep their group order.
C4_TiesInGroupOrder ==
    /\ cpc \in {"city", "age", "map"} =>
          grouped_by_state_short = head(StableDesc(Rows(grouped_by_state)), TopStates)
    /\ cpc \in {"age", "map"} =>
          grouped_by_city_short = head(StableDesc(Rows(grouped_by_city)), TopCities)
    /\ cpc = "map" =>
          grouped_by_age_short = head(StableDesc(Rows(grouped_by_age)), TopAges)

\* C4 amended: each top-N aggregation returns exactly min(N, number of
\* distinct categories) rows in descending incident count, keeping no row
\* with fewer incidents than a row it leaves out; the order of rows with
\* equal counts is not determined.
C4_TopNDescending ==
    /\ cpc \in {"city", "age", "map"} =>
          IsTopN(grouped_by_state_short, grouped_by_state, 10)
    /\ cpc \in {"age", "map"} =>
          IsTopN(grouped_by_city_short, grouped_by_city, 10)
    /\ cpc = "map" =>
          IsTopN(grouped_by_age_short, grouped_by_age, 20)

\* All three aggregations done on a table with more than 20 categories and
\* a tie: every frame is truncated.
C4_Witness ==
    /\ cpc = "map"
    /\ Categories > 20
    /\ Len(grouped_by_state_short) = 10
    /\ Len(grouped_by_city_short) = 10
    /\ Len(grouped_by_age_short) = 20
    /\ \E x, y \in DOMAIN grouped_by_age_short :
          x # y /\ grouped_by_age_short[x].n = grouped_by_age_short[y].n

\* The region names that have a row in the per-state incident counts.
MatchedNames == {ReplaceDict(k) : k \in {q \in StateKeys : incidents[q] > 0}}

\* The rows of the merged table for the regions without a match.
Unmatched == {x \in DOMAIN merged : merged[x].name \notin MatchedNames}

\* C5 as stated: for every incident table and every population table, an
\* unmatched region has Number of Incidents = 0 after the merge and an
\* incidents_per_capita of exactly 0, and the value is never undefined.
C5_ZeroForEveryPopulation ==
    /\ mpc \in {"percapita", "plot"} => \A x \in Unmatched : merged[x].n = 0
    /\ mpc = "plot" =>
          \A x \in Unmatched : merged[x].incidents_per_capita.kind = "num"
                               /\ merged[x].incidents_per_capita.num = 0

\* What the code does guarantee: an unmatched United States region has
\* Number of Incidents = 0 after the left merge, and its incidents_per_capita
\* is exactly 0 when the DP05_0001E column has a nonzero sum; line 195 can
\* only raise when that sum is 0.
C5_ZeroWhenPopulated ==
    /\ mpc \in {"percapita", "plot"} =>
          /\ \A x \in Unmatched : merged[x].n = 0
          /\ \A x \in DOMAIN merged : merged[x].n # NaN
    /\ (mpc = "plot" /\ Sum(population_df) # 0) =>
          \A x \in Unmatched : /\ merged[x].incidents_per_capita.kind = "num"
                               /\ merged[x].incidents_per_capita.num = 0
                               /\ merged[x].incidents_per_capita.den # 0
    /\ (mpc = "aborted") => Sum(population_df) = 0

\* An unmatched region beside a matched one, per-capita values computed
\* from a population table with a nonzero sum.
C5_Witness ==
    /\ mpc = "plot"
    /\ Sum(population_df) # 0
    /\ Unmatched # {}
    /\ \E x \in DOMAIN merged : merged[x].n > 0

-----------------------------------------------------------------------------
\* Wage script: the claims.

\* predict_wage has ended by raising to its caller.
Raised == result = "raised"

\* C1: predict_wage never raises to its caller: for every age and every
\* model the call ends by returning a number or None.
C1_NeverRaises ==
    /\ ~Raised
    /\ wpc = "returned" => result \in {"number", "None"}

\* What holds of the code: a call that reaches the try block returns a number
\* or None; only the row-building statements before it can raise.
C1_TryBlockReturns ==
    /\ Raised => (call.age = Str /\ populated = NoRow)
    /\ wpc = "returned" => result \in {"number", "None"}

\* Positions of the rows of before_filter by their wage.
Positive == {k \in DOMAIN before_filter : Gt(before_filter[k]["INCWAGE"], 0)}
NonPositive == {k \in DOMAIN before_filter :
                   before_filter[k]["INCWAGE"] # NaN /\ before_filter[k]["INCWAGE"] <= 0}
MissingWage == {k \in DOMAIN before_filter : before_filter[k]["INCWAGE"] = NaN}

\* The rows of df are the rows of before_filter at the positions `kept`, in
\* the same order and with the same values in every earlier column.
KeepsExactly(kept) ==
    \E f \in [DOMAIN df.rows -> DOMAIN before_filter] :
        /\ \A a, b \in DOMAIN df.rows : a < b => f[a] < f[b]
        /\ {f[a] : a \in DOMAIN df.rows} = kept
        /\ \A a \in DOMAIN df.rows : \A c \in DOMAIN before_filter[f[a]] :
              df.rows[a][c] = before_filter[f[a]][c]

\* Every row of df has a positive wage and the log of its own wage.
RetainedRowsLogged ==
    \A a \in DOMAIN df.rows :
        /\ Gt(df.rows[a]["INCWAGE"], 0)
        /\ df.rows[a]["lnincwage"] = Log(df.rows[a]["INCWAGE"])
        /\ df.rows[a]["lnincwage"] # NaN

\* C6 as stated: the filter removes exactly the rows whose INCWAGE is
\* non-positive (their number is input rows minus output rows), the retained
\* rows keep order and values, and each has the log of its own wage.
C6_RemovesExactlyNonPositive ==
    wpc = "describe" =>
        /\ Cardinality(NonPositive) = Len(before_filter) - Len(df.rows)
        /\ KeepsExactly(DOMAIN before_filter \ NonPositive)
        /\ RetainedRowsLogged

\* C6 amended: the filter removes exactly the rows whose INCWAGE is not
\* greater than 0, that is the non-positive rows and the rows without a wage
\* (input rows minus output rows is the number of both); every retained row
\* has INCWAGE > 0, the retained rows keep their order and their other
\* values, and each has the natural log of its own INCWAGE as lnincwage.
C6_RemovesNotPositive ==
    wpc = "describe" =>
        /\ Cardinality(NonPositive) + Cardinality(MissingWage)
              = Len(before_filter) - Len(df.rows)
        /\ KeepsExactly(Positive)
        /\ RetainedRowsLogged

\* A frame of two rows of which the first, of non-positive wage, is removed.
C6_Witness ==
    /\ wpc = "describe"
    /\ Len(before_filter) = 2
    /\ NonPositive = {1}
    /\ Len(df.rows) = 1
    /\ df.rows[1]["INCWAGE"] = 3

\* The indicators of a frame row follow the two predicates.
RowTiers(x) ==
    /\ x["hsdip"] \in {0, 1}
    /\ x["coldip"] \in {0, 1}
    /\ x["hsdip"] = 1 <=> (x["educdc"] # NaN /\ x["educdc"] = 12)
    /\ x["coldip"] = 1 <=> (x["educdc"] # NaN /\ x["educdc"] >= 16)
    /\ (x["hsdip"] = 1 /\ x["coldip"] = 1) => (x["educdc"] # NaN /\ x["educdc"] >= 16)

\* C7: for every row of the survey frame hsdip = 1 iff educdc == 12 and
\* coldip = 1 iff educdc >= 16, both are 0 or 1, and both are 1 only if
\* educdc >= 16; predict_wage derives hsdip and coldip from its educdc
\* argument by the same two predicates.
C7_EducationTiers ==
    /\ {"hsdip", "coldip"} \subseteq df.cols =>
          \A k \in DOMAIN df.rows : RowTiers(df.rows[k])
    /\ (wpc \in {"spline", "predict"} /\ {"hsdip", "coldip"} \subseteq Range(test_data.cols)) =>
          /\ test_data.vals["hsdip"] \in {0, 1}
          /\ test_data.vals["coldip"] \in {0, 1}
          /\ test_data.vals["hsdip"] = 1 <=> call.educdc = 12
          /\ test_data.vals["coldip"] = 1 <=> call.educdc >= 16

\* A frame with a row at the boundary 16 and another at 12, and a
\* predict_wage call at 16 whose row carries the indicators.
C7_Witness ==
    /\ wpc = "predict"
    /\ call.educdc = 16
    /\ "coldip" \in Range(test_data.cols)
    /\ test_data.vals["coldip"] = 1
    /\ \E k \in DOMAIN df.rows : df.rows[k]["educdc"] = 16 /\ df.rows[k]["coldip"] = 1
    /\ \E k \in DOMAIN df.rows : df.rows[k]["educdc"] = 12 /\ df.rows[k]["hsdip"] = 1

\* A source column read by Steps 3-6 is absent.
ColumnAbsent ==
    \/ crosswalk.cols # CrosswalkCols
    \/ (SurveyCols \ {"NCHILD"}) \ df.cols # {}

\* The derived values of a row after Step 5 and the age2 of Step 6.
DerivedOf(x) ==
    /\ \A k \in DOMAIN DummyOrder : x[DummyOrder[k]] \in {0, 1}
    /\ \A k \in DOMAIN DummyOrder :
          x[DummySource(DummyOrder[k])] = NaN => x[DummyOrder[k]] = 0
    /\ x["hsdip_educdc"] = NaN <=> x["educdc"] = NaN
    /\ x["coldip_educdc"] = NaN <=> x["educdc"] = NaN
    /\ x["age2"] = NaN <=> x["AGE"] = NaN

\* C8 as stated: the feature-engineering step never aborts, whether a source
\* column is absent or a row has no value for it, and the derived values of
\* an affected row are missing values.
C8_NeverAborts ==
    /\ wpc # "aborted"
    /\ wpc = "describe" =>
          \A k \in DOMAIN before_filter : \A d \in DOMAIN DummyOrder :
              before_filter[k][DummySource(DummyOrder[d])] = NaN
                  => before_filter[k][DummyOrder[d]] = NaN

\* C8 amended: the step has no error handling. When a source column read by
\* a transformation is absent the run aborts at that transformation and does
\* not reach the statistics and regression steps. When every column is
\* present, rows without a value do not abort Steps 3-6: such a row's
\* indicators are 0 (not missing), its interaction terms are missing exactly
\* when educdc is, its age2 exactly when AGE is, and a row without a wage is
\* dropped by the wage filter, so every retained row has a log wage.
C8_AbortsOnlyOnAbsentColumn ==
    /\ wpc = "aborted" <=> (ColumnAbsent /\ wpc \notin {"step3", "step4", "step5", "step6"})
    /\ wpc = "describe" =>
          /\ ~ColumnAbsent
          /\ \A k \in DOMAIN before_filter : DerivedOf(before_filter[k])
          /\ \A k \in DOMAIN df.rows : df.rows[k]["lnincwage"] # NaN

\* Steps 3-6 completed on a frame with a row lacking its education value
\* and its demographic values, which is retained.
C8_Witness ==
    /\ wpc = "describe"
    /\ \E k \in DOMAIN df.rows :
          df.rows[k]["educdc"] = NaN /\ df.rows[k]["RACE"] = NaN
          /\ df.rows[k]["hsdip_educdc"] = NaN

\* A feature row agrees with the training-frame definitions.
Consistent(r) ==
    /\ r["hsdip"] = AsInt(r["educdc"] = 12)
    /\ r["coldip"] = AsInt(r["educdc"] >= 16)
    /\ r["age2"] = r["AGE"] * r["AGE"]
    /\ r["hsdip_educdc"] = r["hsdip"] * r["educdc"]
    /\ r["coldip_educdc"] = r["coldip"] * r["educdc"]

\* C9: every feature row given to the interaction model for prediction (the
\* rows of Step 12 and the row built by predict_wage) is consistent with the
\* training-frame definitions of hsdip, coldip, age2 and the two interaction
\* terms.
C9_RowsConsistent == \A r \in given : Consistent(r.vals)

\* What holds of the code: the rows predict_wage gives to the interaction
\* model are consistent; the two hand-built rows are not.
C9_PredictWageRowsConsistent ==
    \A r \in given \ {hs_grad, college_grad} : Consistent(r.vals)

\* The state of the row after the spline step, against the row the populate
\* step left and the renamed basis.
SplineWroteMatchingOnly ==
    /\ \A c \in Range(populated.cols) :
          test_data.vals[c] = IF c \in Range(spline_features.cols)
                              THEN spline_features.vals[c]
                              ELSE populated.vals[c]
    /\ "const" \in Range(populated.cols) => test_data.cols = populated.cols
    /\ "const" \notin Range(populated.cols) =>
          /\ test_data.cols = << "const" >> \o populated.cols
          /\ test_data.vals["const"] = 1
    /\ "const" \in Range(call.model) =>
          /\ test_data.cols = populated.cols
          /\ test_data.vals["const"] = 1

\* C10 as stated: what SplineWroteMatchingOnly says, and for a model fitted
\* with a const predictor the row's column set is the model's predictor set.
C10_ColumnSetIsPredictorSet ==
    wpc = "predict" =>
        /\ SplineWroteMatchingOnly
        /\ "const" \in Range(call.model) => Range(test_data.cols) = Range(call.model)

\* C10 amended: the spline step writes only the feature-row columns named
\* like a (renamed) basis column, discards the other basis columns, leaves
\* every other column as the populate step left it, and adds only const = 1,
\* only when the row has no const column; so for a model with a const
\* predictor the step leaves the row's column set unchanged and const ends
\* at 1. That column set is the model's predictor set when the predictors
\* include AGE and age2; otherwise it also holds the AGE and age2 columns the
\* populate step added.
C10_SplineFrameEffect ==
    wpc = "predict" =>
        /\ SplineWroteMatchingOnly
        /\ "const" \in Range(call.model) =>
              Range(test_data.cols) = Range(call.model) \cup {"AGE", "age2"}

\* The spline step ran for a model with const and a spline predictor: const
\* and the matching basis column were written, nothing was added.
C10_Witness ==
    /\ wpc = "predict"
    /\ "bs(AGE)[0]" \in Range(call.model)
    /\ spline_features.vals["bs(AGE)[0]"] = 1
    /\ test_data.vals["bs(AGE)[0]"] = 1
    /\ populated.vals["const"] # 1
    /\ test_data.vals["const"] = 1

====
